---- MODULE Spec2Model ----
(***************************************************************************)
(* AFRI-INVEST AI dashboard (src/app.py).                                  *)
(*                                                                         *)
(* One run of main() is one page load.  The script is re-run from the top  *)
(* on every user interaction; what survives between runs is the widget     *)
(* state (selected country, selected sentiment), the process-wide cache of *)
(* get_market_data and the result of the feedparser import.  A page load   *)
(* is modelled statement group by statement group (pc), so that the order  *)
(* of the rendered elements and the point where an exception leaves the    *)
(* try block are visible.                                                  *)
(*                                                                         *)
(* External collaborators are inputs: the logo file (present or not), the  *)
(* news feed (entries, no entries, or an exception), the market-data       *)
(* provider (rows, no rows, or an exception) and the random draws of the   *)
(* sample series.                                                          *)
(***************************************************************************)
EXTENDS Integers, Sequences, FiniteSets, TLC

VARIABLES
    country,              \* value of the "Select Country" selectbox
    sentiment,            \* value of the sentiment radio
    FEEDPARSER_AVAILABLE, \* whether `import feedparser` succeeded (lines 10-14)
    cache,                \* st.cache_data store of get_market_data, by ticker
    pc,                   \* position of the running page load in main()
    page,                 \* elements rendered by the current page load, in order
    shownSymbol,          \* value of the "Index Symbol" metric
    data,                 \* local `data` of main(): the frame get_market_data returned
    plotted,              \* the trace given to the chart: ticker + Close column
    shownStocks,          \* recommended stocks printed in the insight panel
    error,                \* exception that reached the handler of main(), or "none"
    failedAt,             \* statement group the exception left, or "none"
    quote,                \* what the provider did in this page load
    news,                 \* what the feed did in this page load
    fetched,              \* history: per ticker, the frame the provider call last
                          \* produced for it and the seconds since then
    loads                 \* page loads started so far

vars == <<country, sentiment, FEEDPARSER_AVAILABLE, cache, pc, page, shownSymbol,
          data, plotted, shownStocks, error, failedAt, quote, news, fetched, loads>>

----------------------------------------------------------------------------
(* Bounds of the model *)

\* page loads in one behaviour
MaxLoads == 2
\* rows of a non-empty provider answer are 1..MaxRows
MaxRows == 1

----------------------------------------------------------------------------
(* Constants of the program *)

\* ttl of st.cache_data, in seconds
TTL == 3600
\* pd.date_range(..., periods=180)
SamplePeriods == 180
\* np.random.randn(180)
SampleDraws == 180
\* feed.entries[:5]
MaxNewsShown == 5
\* + 100 of the sample walk
SampleBase == 100

Countries == <<"Nigeria", "South Africa", "Kenya", "Egypt", "Morocco">>

Sentiments == <<"Bullish", "Bearish", "Neutral">>

Range(s) == {s[i] : i \in DOMAIN s}

\* the ticker table with the last country left out
tickers_incomplete ==
    [c \in Range(Countries) \ {"Morocco"} |->
        CASE c = "Nigeria"      -> "^NGXASI"
          [] c = "South Africa" -> "^JN0U.JO"
          [] c = "Kenya"        -> "^NSEI"
          [] c = "Egypt"        -> "^CASE30"]

tickers ==
    [c \in Range(Countries) |->
        CASE c = "Nigeria"      -> "^NGXASI"
          [] c = "South Africa" -> "^JN0U.JO"
          [] c = "Kenya"        -> "^NSEI"
          [] c = "Egypt"        -> "^CASE30"
          [] c = "Morocco"      -> "^MSI20"]

recommendations ==
    [c \in Range(Countries) |->
        CASE c = "Nigeria"      -> <<"MTN Nigeria (MTNN.LG)", "Dangote Cement (DANGCEM.LG)">>
          [] c = "South Africa" -> <<"Naspers (NPN.JO)", "MTN Group (MTN.JO)">>
          [] c = "Kenya"        -> <<"Safaricom (SCOM.NR)", "Equity Group (EQTY.NR)">>
          [] c = "Egypt"        -> <<"Commercial International Bank (COMI.CA)", "EFG Hermes (HRHO.CA)">>
          [] c = "Morocco"      -> <<"Maroc Telecom (IAM.CS)", "Attijariwafa Bank (ATW.CS)">>]

news_feeds ==
    [c \in Range(Countries) |->
        CASE c = "Nigeria"      -> "headline?s=MTNN.LG"
          [] c = "South Africa" -> "headline?s=^JN0U.JO"
          [] c = "Kenya"        -> "headline?s=SCOM.NR"
          [] c = "Egypt"        -> "headline?s=COMI.CA"
          [] c = "Morocco"      -> "headline?s=IAM.CS"]

NotAvailable == <<"Not available", "Not available">>

\* the helper looking the country up in lowercase: no key matches
get_recommended_stocks_lowercase(c) ==
    IF c \in {"nigeria", "south africa", "kenya", "egypt", "morocco"}
    THEN recommendations[c] ELSE NotAvailable

get_recommended_stocks(c) ==
    IF c \in DOMAIN recommendations THEN recommendations[c] ELSE NotAvailable

----------------------------------------------------------------------------
(* Data frames.  A frame is the table get_market_data works on: the ticker *)
(* it was produced for, its columns and its Close column (one value per    *)
(* row).  `data`, `plotted` and the slots of the cache hold <<>> (nothing) *)
(* or a one-element sequence.                                              *)

PriceColumns == {"Open", "High", "Low", "Close", "Volume"}

\* yf.Ticker(ticker).history(period="6mo") answering with `rows` rows
history(ticker, rows) ==
    [for |-> ticker, columns |-> PriceColumns, Close |-> [i \in 1..rows |-> 1000 + i]]

\* data.empty
empty(frame) == Len(frame.Close) = 0 \/ frame.columns = {}

\* pd.DataFrame()
EmptyDataFrame(ticker) == [for |-> ticker, columns |-> {}, Close |-> <<>>]

\* one draw fewer than the index has dates
randn_short(draw) == [i \in 1..(SampleDraws - 1) |-> draw]

\* np.random.randn(180), every draw equal to `draw`
randn(draw) == [i \in 1..SampleDraws |-> draw]

\* np.cumsum: running sums, computed by halves (the sums of the second half
\* start from the last sum of the first half)
RECURSIVE cumsum(_)
cumsum(steps) ==
    IF Len(steps) <= 1 THEN steps
    ELSE LET n     == Len(steps)
             half  == n \div 2
             left  == cumsum(SubSeq(steps, 1, half))
             right == cumsum(SubSeq(steps, half + 1, n))
         IN  left \o [i \in 1..(n - half) |-> left[half] + right[i]]

\* np.cumsum(np.random.randn(180)) + 100
SampleValues(draw) ==
    LET walk == cumsum(randn(draw)) IN [i \in DOMAIN walk |-> walk[i] + SampleBase]

\* the random draws of one sample series
Draws == {-1, 1}

\* the sample values, by draw
SampleTable == [draw \in Draws |-> SampleValues(draw)]

\* what the provider can do: raise, or answer with 0..MaxRows rows
Answers ==
    {[raises |-> TRUE, rows |-> 0]} \cup {[raises |-> FALSE, rows |-> n] : n \in 0..MaxRows}

\* the except branch of get_market_data: st.error, then pd.DataFrame().  `pd`
\* is a local name of get_market_data, bound only by the import inside the
\* `if data.empty` branch
ExceptBranch(ticker, pdBound, shown) ==
    IF pdBound
    THEN [raised |-> "none", frame |-> <<EmptyDataFrame(ticker)>>,
          shown |-> Append(shown, "fetch_error")]
    ELSE [raised |-> "UnboundLocalError", frame |-> <<>>,
          shown |-> Append(shown, "fetch_error")]

\* the warning without the substitution: the provider's empty frame is returned
SampleBranch_unsubstituted(ticker, draw) ==
    [raised |-> "none", frame |-> <<history(ticker, 0)>>, shown |-> <<"sample_warning">>]

\* the `if data.empty` branch: st.warning, the imports, the sample frame
SampleBranch(ticker, draw) ==
    LET values == SampleTable[draw] IN
    IF Len(values) = SamplePeriods
    THEN [raised |-> "none",
          frame  |-> <<[for |-> ticker, columns |-> {"Close"}, Close |-> values]>>,
          shown  |-> <<"sample_warning">>]
    ELSE \* pd.DataFrame raises ValueError: values and index differ in length
         ExceptBranch(ticker, TRUE, <<"sample_warning">>)

\* the body of get_market_data(ticker), given what the provider does and the
\* random draws: the exception it raises ("none" when it returns), the frame
\* it returns and the elements it renders
get_market_data(ticker, answer, draw) ==
    IF answer.raises
    THEN ExceptBranch(ticker, FALSE, <<>>)
    ELSE LET frame == history(ticker, answer.rows) IN
         IF empty(frame)
         THEN SampleBranch(ticker, draw)
         ELSE [raised |-> "none", frame |-> <<frame>>, shown |-> <<>>]

----------------------------------------------------------------------------
(* @st.cache_data(ttl=3600): one slot per argument value, holding the      *)
(* returned frame and its age in seconds.  A call that raises stores       *)
(* nothing.  A slot answers while its age is below the ttl.  Only the      *)
(* elements get_market_data renders when its body runs are recorded on the *)
(* page.                                                                   *)

\* one slot for every argument
CacheKey_shared(ticker) == "^NGXASI"

CacheKey(ticker) == ticker

\* a slot that never expires
CacheHit_forever(slot) == slot # <<>>

CacheHit(slot) == slot # <<>> /\ slot[1].age < TTL

\* seconds that pass between two page loads
TimeSteps == {TTL - 1, TTL}

Older(slot, d) ==
    IF slot = <<>> THEN slot
    ELSE <<[slot[1] EXCEPT !.age = IF @ + d > TTL THEN TTL ELSE @ + d]>>

----------------------------------------------------------------------------
(* State after the process has started: the module-level code (imports,    *)
(* page config and styling, lines 1-83) is taken to have completed, no     *)
(* page has been rendered yet.  What follows models main() only.           *)

\* the news section has not run in this page load
NoNews == [outcome |-> "none", requested |-> FALSE, raised |-> "none", shown |-> <<>>]

Init ==
    /\ country = Countries[1]                 \* index=0
    /\ sentiment = Sentiments[1]
    /\ FEEDPARSER_AVAILABLE \in BOOLEAN        \* the import succeeded or not
    /\ cache = [k \in Range(tickers) |-> <<>>]
    /\ fetched = [k \in Range(tickers) |-> <<>>]
    /\ pc = "idle"
    /\ page = <<>>
    /\ shownSymbol = ""
    /\ data = <<>>
    /\ plotted = <<>>
    /\ shownStocks = <<>>
    /\ error = "none"
    /\ failedAt = "none"
    /\ quote = "none"
    /\ news = NoNews
    /\ loads = 0

Idle == pc \in {"idle", "done", "stopped"}

\* the script starts again from the top
Rerun ==
    /\ loads < MaxLoads
    /\ loads' = loads + 1
    /\ pc' = "header"
    /\ page' = <<>>
    /\ shownSymbol' = ""
    /\ data' = <<>>
    /\ plotted' = <<>>
    /\ shownStocks' = <<>>
    /\ error' = "none"
    /\ failedAt' = "none"
    /\ quote' = "none"
    /\ news' = NoNews

\* the browser opens or reloads the page
Reload ==
    /\ Idle
    /\ Rerun
    /\ UNCHANGED <<country, sentiment, FEEDPARSER_AVAILABLE, cache, fetched>>

\* the user picks another country in the selectbox
SelectCountry(c) ==
    /\ Idle
    /\ "selectbox" \in Range(page)
    /\ c # country
    /\ country' = c
    /\ Rerun
    /\ UNCHANGED <<sentiment, FEEDPARSER_AVAILABLE, cache, fetched>>

\* the user picks another answer of the sentiment poll
SelectSentiment(s) ==
    /\ Idle
    /\ "sentiment_radio" \in Range(page)
    /\ s # sentiment
    /\ sentiment' = s
    /\ Rerun
    /\ UNCHANGED <<country, FEEDPARSER_AVAILABLE, cache, fetched>>

\* d seconds pass while the page is displayed
Advance(d) ==
    /\ Idle
    /\ cache' = [k \in DOMAIN cache |-> Older(cache[k], d)]
    /\ fetched' = [k \in DOMAIN fetched |-> Older(fetched[k], d)]
    /\ UNCHANGED <<country, sentiment, FEEDPARSER_AVAILABLE, pc, page, shownSymbol, data,
                   plotted, shownStocks, error, failedAt, quote, news, loads>>

----------------------------------------------------------------------------
(* main(): the try block *)

\* an exception leaves the try block at statement group `at`
Raise(kind, at) ==
    /\ error' = kind
    /\ failedAt' = at
    /\ pc' = "handler"

\* add_logo("logo.png"), the title and st.selectbox, which returns the value
\* the widget holds (lines 88-100)
Header ==
    /\ pc = "header"
    /\ country \in Range(Countries)
    /\ \E logoFound \in BOOLEAN :
         page' = page \o (IF logoFound THEN <<"logo">> ELSE <<"logo_warning", "title">>)
                      \o <<"title", "selectbox">>
    /\ pc' = "metrics"
    /\ UNCHANGED <<country, sentiment, FEEDPARSER_AVAILABLE, cache, fetched, shownSymbol,
                   data, plotted, shownStocks, error, failedAt, quote, news, loads>>

\* the three metrics (lines 130-136); tickers[country] is a dict lookup
Metrics ==
    /\ pc = "metrics"
    /\ IF country \in DOMAIN tickers
       THEN /\ page' = page \o <<"metric_market", "metric_symbol", "metric_period">>
            /\ shownSymbol' = tickers[country]
            /\ pc' = "news"
            /\ UNCHANGED <<error, failedAt>>
       ELSE /\ page' = Append(page, "metric_market")
            /\ Raise("KeyError", "metrics")
            /\ UNCHANGED shownSymbol
    /\ UNCHANGED <<country, sentiment, FEEDPARSER_AVAILABLE, cache, fetched,
                   data, plotted, shownStocks, quote, news, loads>>

\* number of entries a feed can answer with
FeedSizes == {0, 1, MaxNewsShown + 1}

\* feed.entries[:5], one element per entry
NewsItems(n) == [i \in 1..(IF n < MaxNewsShown THEN n ELSE MaxNewsShown) |-> "news_item"]

\* the feed is tried whatever the import flag says, with no static fallback
NewsSection_unconditional(available, c, feedRaises, entries) ==
    IF available /\ ~feedRaises /\ entries > 0
    THEN [outcome |-> "entries", requested |-> TRUE, raised |-> "none",
          shown |-> NewsItems(entries)]
    ELSE [outcome |-> "raised", requested |-> TRUE, raised |-> "none",
          shown |-> <<"news_warning">>]

\* the feed call outside any try: its exception leaves the news section
NewsSection_uncaught(available, c, feedRaises, entries) ==
    IF available /\ feedRaises
    THEN [outcome |-> "raised", requested |-> TRUE, raised |-> "Exception", shown |-> <<>>]
    ELSE IF available
    THEN [outcome |-> IF entries = 0 THEN "no_entries" ELSE "entries", requested |-> TRUE,
          raised |-> "none",
          shown |-> IF entries = 0 THEN <<"no_news_warning">> ELSE NewsItems(entries)]
    ELSE [outcome |-> "unavailable", requested |-> FALSE, raised |-> "none",
          shown |-> <<"install_info", "install_code", "static_news">>]

\* the news section (lines 139-170), given the import flag and what the feed
\* does: the outcome, whether the feed was requested, the elements rendered and
\* the exception that leaves the section ("none": the inner except catches all)
NewsSection(available, c, feedRaises, entries) ==
    IF available
    THEN \* the inner try (lines 151-159); news_feeds[country] is a dict lookup
         IF c \notin DOMAIN news_feeds
         THEN [outcome |-> "raised", requested |-> FALSE, raised |-> "none",
               shown |-> <<"news_warning">>]
         ELSE IF feedRaises
         THEN [outcome |-> "raised", requested |-> TRUE, raised |-> "none",
               shown |-> <<"news_warning">>]
         ELSE IF entries = 0
         THEN [outcome |-> "no_entries", requested |-> TRUE, raised |-> "none",
               shown |-> <<"no_news_warning">>]
         ELSE [outcome |-> "entries", requested |-> TRUE, raised |-> "none",
               shown |-> NewsItems(entries)]
    ELSE [outcome |-> "unavailable", requested |-> FALSE, raised |-> "none",
          shown |-> <<"install_info", "install_code", "static_news">>]

News ==
    /\ pc = "news"
    /\ \E feedRaises \in BOOLEAN, entries \in FeedSizes :
         /\ feedRaises => entries = 0
         /\ ~FEEDPARSER_AVAILABLE => (~feedRaises /\ entries = 0)
         /\ LET r == NewsSection(FEEDPARSER_AVAILABLE, country, feedRaises, entries) IN
              /\ news' = r
              /\ page' = page \o <<"news_heading">> \o r.shown
              /\ IF r.raised = "none"
                 THEN pc' = "fetch" /\ UNCHANGED <<error, failedAt>>
                 ELSE Raise(r.raised, "news")
    /\ UNCHANGED <<country, sentiment, FEEDPARSER_AVAILABLE, cache, fetched, shownSymbol,
                   data, plotted, shownStocks, quote, loads>>

\* data = get_market_data(tickers[country]) through st.cache_data (line 173)
Fetch ==
    /\ pc = "fetch"
    /\ IF country \notin DOMAIN tickers
       THEN /\ Raise("KeyError", "fetch")
            /\ UNCHANGED <<cache, fetched, data, quote, page>>
       ELSE LET ticker == tickers[country]
                key    == CacheKey(ticker)
            IN  IF CacheHit(cache[key])
                THEN /\ data' = <<cache[key][1].value>>
                     /\ quote' = "cached"
                     /\ pc' = "chart"
                     /\ UNCHANGED <<cache, fetched, page, error, failedAt>>
                ELSE \E answer \in Answers, draw \in Draws :
                       /\ ~(~answer.raises /\ answer.rows = 0) => draw = 1
                       /\ LET r == get_market_data(ticker, answer, draw) IN
                            /\ quote' = IF answer.raises THEN "raised"
                                        ELSE IF answer.rows = 0 THEN "empty" ELSE "rows"
                            /\ page' = page \o r.shown
                            /\ IF r.raised = "none"
                               THEN /\ data' = r.frame
                                    /\ cache' = [cache EXCEPT ![key] =
                                                   <<[value |-> r.frame[1], age |-> 0]>>]
                                    /\ fetched' = [fetched EXCEPT ![ticker] =
                                                   <<[value |-> r.frame[1], age |-> 0]>>]
                                    /\ pc' = "chart"
                                    /\ UNCHANGED <<error, failedAt>>
                               ELSE /\ Raise(r.raised, "fetch")
                                    /\ UNCHANGED <<cache, fetched, data>>
    /\ UNCHANGED <<country, sentiment, FEEDPARSER_AVAILABLE, shownSymbol,
                   plotted, shownStocks, news, loads>>

\* the figure and st.plotly_chart (lines 174-197); data['Close'] is a column lookup
Chart ==
    /\ pc = "chart"
    /\ IF "Close" \in data[1].columns
       THEN /\ plotted' = <<[for |-> data[1].for, Close |-> data[1].Close]>>
            /\ page' = Append(page, "chart")
            /\ pc' = "panels"
            /\ UNCHANGED <<error, failedAt>>
       ELSE /\ Raise("KeyError", "chart")
            /\ UNCHANGED <<plotted, page>>
    /\ UNCHANGED <<country, sentiment, FEEDPARSER_AVAILABLE, cache, fetched, shownSymbol,
                   data, shownStocks, quote, news, loads>>

\* the two expanders and the sentiment poll (lines 199-232)
Panels ==
    /\ pc = "panels"
    /\ sentiment \in Range(Sentiments)
    /\ shownStocks' = <<get_recommended_stocks(country)[1], get_recommended_stocks(country)[2]>>
    /\ page' = page \o <<"insights", "learn",
                         "sentiment_heading", "sentiment_radio", "sentiment_view">>
    /\ pc' = "footer"
    /\ UNCHANGED <<country, sentiment, FEEDPARSER_AVAILABLE, cache, fetched, shownSymbol,
                   data, plotted, error, failedAt, quote, news, loads>>

\* the handler without st.stop()
StopHalts_missing == FALSE

\* st.stop() ends the script run (TRUE), or the run goes on after the handler
StopHalts == TRUE

\* except Exception (lines 234-241): st.error with format_exc(), then st.stop()
Handler ==
    /\ pc = "handler"
    /\ page' = Append(page, "app_error")
    /\ pc' = IF StopHalts THEN "stopped" ELSE "footer"
    /\ UNCHANGED <<country, sentiment, FEEDPARSER_AVAILABLE, cache, fetched, shownSymbol,
                   data, plotted, shownStocks, error, failedAt, quote, news, loads>>

\* the footer (lines 243-245)
Footer ==
    /\ pc = "footer"
    /\ page' = page \o <<"divider", "caption">>
    /\ pc' = "done"
    /\ UNCHANGED <<country, sentiment, FEEDPARSER_AVAILABLE, cache, fetched, shownSymbol,
                   data, plotted, shownStocks, error, failedAt, quote, news, loads>>

----------------------------------------------------------------------------

Next ==
    \/ Reload
    \/ \E c \in Range(Countries) : SelectCountry(c)
    \/ \E s \in Range(Sentiments) : SelectSentiment(s)
    \/ \E d \in TimeSteps : Advance(d)
    \/ Header
    \/ Metrics
    \/ News
    \/ Fetch
    \/ Chart
    \/ Panels
    \/ Handler
    \/ Footer

Spec == Init /\ [][Next]_vars

----------------------------------------------------------------------------
(* Properties *)

Rendered(e) == e \in Range(page)

\* the page load is past the news section / past the call of get_market_data
PastNews == news.outcome # "none"
PastFetch == quote # "none"
Finished == pc \in {"done", "stopped"}

\* everything that follows the news section on a complete page
RestOfPage == {"chart", "insights", "learn", "sentiment_radio", "sentiment_view",
               "divider", "caption"}

\* the provider answering with no rows
EmptyAnswer == [raises |-> FALSE, rows |-> 0]

\* C1: when the provider answers with an empty result, get_market_data returns
\* (does not raise) a frame for the asked ticker that is non-empty and has
\* exactly 180 Close values; this for every ticker of the ticker table and
\* every random draw, and in every page load where the answer was empty.
C1_SampleSeriesHasConfiguredLength ==
    /\ \A c \in DOMAIN tickers : \A draw \in Draws :
         LET r == get_market_data(tickers[c], EmptyAnswer, draw) IN
           /\ r.raised = "none"
           /\ ~empty(r.frame[1])
           /\ Len(r.frame[1].Close) = 180
    /\ quote = "empty" =>
         /\ error = "none"
         /\ data # <<>>
         /\ ~empty(data[1])
         /\ Len(data[1].Close) = 180
         /\ data[1].for = tickers[country]

C1_Witness ==
    /\ quote = "empty"
    /\ country = "Morocco"
    /\ pc = "chart"
    /\ Len(data[1].Close) = 180
    /\ Rendered("sample_warning")

\* C2: a page load that renders the chart plots at least one closing price,
\* whatever the country and whatever the provider did; and a page load that
\* gets past the chart statement has rendered the chart.
C2_ChartNeverEmpty ==
    /\ Rendered("chart") => plotted # <<>> /\ Len(plotted[1].Close) >= 1
    /\ pc \in {"panels", "footer", "done"} => Rendered("chart")

C2_Witness ==
    /\ Rendered("chart")
    /\ quote = "empty"
    /\ country = "Kenya"
    /\ Len(plotted[1].Close) >= 1

\* C3: once a provider call for a ticker has produced a frame, a page load for
\* that ticker less than 3600 seconds later does not call the provider, gets
\* that same frame and plots its Close column; a page load for that ticker
\* 3600 seconds later or more calls the provider again.
C3_CachedForTTL ==
    [][ /\ (pc = "fetch" /\ pc' # "fetch" /\ country \in DOMAIN tickers
            /\ fetched[tickers[country]] # <<>>) =>
             IF fetched[tickers[country]][1].age < 3600
             THEN /\ quote' = "cached"
                  /\ data' = <<fetched[tickers[country]][1].value>>
                  /\ fetched' = fetched
             ELSE quote' \in {"rows", "empty", "raised"}
        /\ (pc = "chart" /\ pc' # "chart" /\ quote = "cached") =>
             /\ Rendered("chart")'
             /\ plotted'[1].Close = fetched[tickers[country]][1].value.Close
      ]_vars

C3_Witness ==
    /\ quote = "cached"
    /\ Rendered("chart")
    /\ fetched[tickers[country]][1].age = TTL - 1
    /\ plotted[1].Close = fetched[tickers[country]][1].value.Close

\* C4: an exception raised in the try block of main reaches the handler; the
\* handler adds the application error (with the trace of that exception) to
\* what was rendered before the failure and the run stops there: nothing else
\* is rendered in that page load, the footer included.
C4_ErrorHaltsRendering ==
    [][ /\ (pc # "handler" /\ pc' = "handler") => error' # "none" /\ ~Rendered("app_error")'
        /\ pc = "handler" =>
             /\ page' = Append(page, "app_error")
             /\ error' = error
             /\ pc' = "stopped"
        /\ pc = "stopped" => (page' = page \/ (pc' = "header" /\ page' = <<>>))
        /\ error' # "none" =>
             /\ pc' \in {"handler", "stopped"}
             /\ RestOfPage \cap Range(page') = {}
      ]_vars

C4_Witness ==
    /\ pc = "stopped"
    /\ error = "UnboundLocalError"
    /\ failedAt = "fetch"
    /\ page[Len(page)] = "app_error"
    /\ ~Rendered("caption")

\* C5: every country of the selectbox has an entry in the ticker table, in the
\* news-feed table and in the recommendation table, the selected country is
\* always one of them, and no page load ends in a KeyError, shows the news
\* warning because of a missing feed entry, or prints the default labels.
C5_LookupsNeverFail ==
    /\ \A c \in Range(Countries) :
         c \in DOMAIN tickers /\ c \in DOMAIN news_feeds /\ c \in DOMAIN recommendations
    /\ country \in Range(Countries)
    /\ error # "KeyError"
    /\ news.outcome = "raised" => news.requested
    /\ Rendered("metric_market") => Rendered("metric_symbol")
    /\ Rendered("insights") => shownStocks = recommendations[country]

C5_Witness ==
    /\ pc = "done"
    /\ loads = MaxLoads
    /\ country = "Morocco"
    /\ FEEDPARSER_AVAILABLE
    /\ shownSymbol = "^MSI20"
    /\ shownStocks = <<"Maroc Telecom (IAM.CS)", "Attijariwafa Bank (ATW.CS)">>

\* C6: every country of the selectbox has a non-empty ticker symbol and
\* get_recommended_stocks returns exactly two labels for it, neither being
\* "Not available"; the symbol and the labels shown on the page are these.
C6_TablesComplete ==
    /\ \A c \in Range(Countries) :
         /\ c \in DOMAIN tickers
         /\ tickers[c] # ""
         /\ Len(get_recommended_stocks(c)) = 2
         /\ \A i \in 1..2 : get_recommended_stocks(c)[i] \notin {"Not available", ""}
    /\ Rendered("metric_symbol") => shownSymbol # ""
    /\ Rendered("insights") =>
         /\ Len(shownStocks) = 2
         /\ "Not available" \notin Range(shownStocks)

C6_Witness ==
    /\ Rendered("insights")
    /\ country = "Kenya"
    /\ shownSymbol = "^NSEI"
    /\ shownStocks = <<"Safaricom (SCOM.NR)", "Equity Group (EQTY.NR)">>

C8_FetchErrorReturnsEmptyTable ==
    quote = "raised" =>
        /\ Rendered("fetch_error")
        /\ error = "none"
        /\ data = <<EmptyDataFrame(tickers[country])>>

C10_CacheKeyedByTicker ==
    /\ data # <<>> => data[1].for = tickers[country]
    /\ Rendered("chart") =>
         /\ plotted[1].for = tickers[country]
         /\ plotted[1].for = shownSymbol
    /\ \A k \in DOMAIN cache : cache[k] # <<>> => cache[k][1].value.for = k

C10_Witness ==
    /\ Rendered("chart")
    /\ country = "South Africa"
    /\ quote \in {"rows", "empty"}
    /\ CacheHit(cache["^NGXASI"])
    /\ plotted[1].for = "^JN0U.JO"
    /\ shownSymbol = "^JN0U.JO"

====
